---- MODULE Spec2Model ----
(***************************************************************************)
(* Medicare hospital administration: the entity store (server/storage.ts), *)
(* the REST handlers in front of it (server/routes.ts) and the seed        *)
(* script.  Each HTTP handler is one action; the store rows are the state. *)
(* Money is counted in whole currency units; timestamps are ticks of a     *)
(* logical clock, which advances only in the specification with Tick; a    *)
(* nullable column holds <<>> (NULL) or <<v>>; payments counts the payment *)
(* requests served so far; calls holds the storage calls that have begun   *)
(* and not yet returned, or the bed list a client holds; issued records    *)
(* the patient codes createPatient has handed out; env is the process      *)
(* environment; users is the users table; wardsPage is the React state of  *)
(* the wards page; req is the last request or click.  The patient routes   *)
(* take the session of the request as an input and run behind the access   *)
(* check; the other routes are modelled for the requests of a signed-in    *)
(* user.  The concurrent specifications split a storage method at its      *)
(* awaits, one action per statement.                                       *)
(***************************************************************************)
EXTENDS Integers, Sequences, FiniteSets, TLC

VARIABLES patients, beds, admissions, bills, now, payments, req, res,
          appointments, labTests, calls, issued, env, users, wardsPage

vars == <<patients, beds, admissions, bills, now, payments, req, res,
          appointments, labTests, calls, issued, env, users, wardsPage>>

(***************************************************************************)
(* Bounds of the model                                                     *)
(***************************************************************************)
SeedBeds == 1
MaxBeds == 2
MaxAdmissions == 2
MaxBills == 2
MaxPayments == 2
MaxRows == 120
MaxPatients == 2
MaxAppointments == 2
MaxLabTests == 2
MaxClock == 2

(***************************************************************************)
(* Schema (shared/schema.ts)                                               *)
(***************************************************************************)
BED_STATUSES == {"available", "occupied", "maintenance", "reserved"}

ADMISSION_STATUSES == {"admitted", "discharged"}

\* a column left NULL
NULL == <<>>

\* a field the JSON body does not carry (undefined): the column default applies
ABSENT == "absent"

\* beds.status default
BedStatusDefault == "available"

\* admissions.status default
AdmissionStatusDefault == "admitted"

\* what a storage method returns when no row matched; row ids start at 1
Undefined == 0

APPOINTMENT_STATUSES ==
  {"scheduled", "completed", "cancelled", "no_show", "in_progress"}

LAB_TEST_STATUSES ==
  {"pending", "sample_collected", "in_progress", "completed", "cancelled"}

\* appointments.status default
AppointmentStatusDefault == "scheduled"

\* lab_tests.status default
LabTestStatusDefault == "pending"

PAYMENT_STATUSES == {"paid", "partial", "pending", "cancelled"}

PAYMENT_METHODS == {"cash", "card", "insurance", "upi"}

\* bills.payment_status default
PaymentStatusDefault == "pending"

\* bills.paid_amount default
PaidAmountDefault == 0

\* whether the second store write of a two-write method fails (the store
\* becomes unavailable between the two statements); it can fail only when
\* the method gets as far as issuing it
WriteFaults == BOOLEAN

\* process.env as the server reads it: REPLIT_DEPLOYMENT_ID set (a
\* deployment) or not set (a development run)
Deployed == [REPLIT_DEPLOYMENT_ID |-> <<"deployment">>]

Undeployed == [REPLIT_DEPLOYMENT_ID |-> NULL]

Environments == {Deployed, Undeployed}

\* the clients whose requests the server may be serving at the same time
Callers == {"a", "b"}

\* a client with no storage call in progress
Idle == [pc |-> "idle"]

\* the sample patients the seed inserts
SeedPatients == 5

\* ids a request can name: every existing row and one that matches no row
PatientRefs == {1, SeedPatients + 1}
BedRefs == 1..(MaxBeds + 1)
AdmissionRefs == 1..(MaxAdmissions + 1)
BillRefs == 1..(MaxBills + 1)

(***************************************************************************)
(* Seed (server/seed.ts)                                                   *)
(***************************************************************************)
\* Math.random() > 0.7 ? "occupied" : "available", per seeded bed
SeedBedStatuses == {"occupied", "available"}

SeedBedRows == [1..SeedBeds -> [status : SeedBedStatuses]]

\* samplePatients: a string is the sequence of its characters
SamplePatients ==
  <<
    [patientId |-> <<"P", "A", "T", "-", "0", "0", "0", "0", "1">>,
     firstName |-> <<"J", "o", "h", "n">>,
     lastName |-> <<"S", "m", "i", "t", "h">>,
     phone |-> <<"+", "1", " ", "5", "5", "5", "-", "0", "1", "0", "1">>],
    [patientId |-> <<"P", "A", "T", "-", "0", "0", "0", "0", "2">>,
     firstName |-> <<"S", "a", "r", "a", "h">>,
     lastName |-> <<"J", "o", "h", "n", "s", "o", "n">>,
     phone |-> <<"+", "1", " ", "5", "5", "5", "-", "0", "1", "0", "2">>],
    [patientId |-> <<"P", "A", "T", "-", "0", "0", "0", "0", "3">>,
     firstName |-> <<"M", "i", "c", "h", "a", "e", "l">>,
     lastName |-> <<"W", "i", "l", "l", "i", "a", "m", "s">>,
     phone |-> <<"+", "1", " ", "5", "5", "5", "-", "0", "1", "0", "3">>],
    [patientId |-> <<"P", "A", "T", "-", "0", "0", "0", "0", "4">>,
     firstName |-> <<"E", "m", "i", "l", "y">>,
     lastName |-> <<"B", "r", "o", "w", "n">>,
     phone |-> <<"+", "1", " ", "5", "5", "5", "-", "0", "1", "0", "4">>],
    [patientId |-> <<"P", "A", "T", "-", "0", "0", "0", "0", "5">>,
     firstName |-> <<"D", "a", "v", "i", "d">>,
     lastName |-> <<"D", "a", "v", "i", "s">>,
     phone |-> <<"+", "1", " ", "5", "5", "5", "-", "0", "1", "0", "5">>]
  >>

SeedPatientRows == [i \in 1..SeedPatients |-> SamplePatients[i]]

(***************************************************************************)
(* Storage: wards and beds                                                 *)
(***************************************************************************)
\* db.insert(beds).values(bed): status falls back to the column default
createBed(bds, body) ==
  Append(bds, [status |-> IF body.status = ABSENT THEN BedStatusDefault
                          ELSE body.status])

\* the bed update with its where clause left out: every bed gets the status
SetBedStatus_everyBed(bds, id, status) ==
  [b \in DOMAIN bds |-> [bds[b] EXCEPT !.status = status]]

\* db.update(beds).set({status}).where(eq(beds.id, id)): no row, no change
SetBedStatus(bds, id, status) ==
  [b \in DOMAIN bds |-> IF b = id THEN [bds[b] EXCEPT !.status = status]
                        ELSE bds[b]]

(***************************************************************************)
(* Storage: admissions                                                     *)
(***************************************************************************)
\* the foreign keys of admissions: patient_id -> patients, bed_id -> beds
AdmissionFKsHold(pats, bds, body) ==
  /\ body.patientId \in DOMAIN pats
  /\ body.bedId \in DOMAIN bds

\* the row the insert stores: defaults fill the fields the body leaves out
AdmissionRow(body, t) ==
  [patientId |-> body.patientId,
   bedId |-> body.bedId,
   status |-> IF body.status = ABSENT THEN AdmissionStatusDefault
              ELSE body.status,
   admissionDate |-> <<t>>,
   dischargeDate |-> NULL]

\* createAdmission with the bed write wrapped in a catch that drops the error
createAdmission_swallowsBedError(adms, bds, pats, body, t, bedWriteFails) ==
  IF ~AdmissionFKsHold(pats, bds, body)
  THEN [admissions |-> adms, beds |-> bds, ret |-> Undefined, threw |-> TRUE]
  ELSE LET inserted == Append(adms, AdmissionRow(body, t)) IN
       [admissions |-> inserted,
        beds |-> IF bedWriteFails THEN bds
                 ELSE SetBedStatus(bds, body.bedId, "occupied"),
        ret |-> Len(inserted), threw |-> FALSE]

\* createAdmission: insert the row, then set the bed occupied; two writes,
\* no transaction.  Yields the new tables, the returned row id and whether
\* the method threw.
createAdmission(adms, bds, pats, body, t, bedWriteFails) ==
  IF ~AdmissionFKsHold(pats, bds, body)
  THEN [admissions |-> adms, beds |-> bds, ret |-> Undefined, threw |-> TRUE]
  ELSE LET inserted == Append(adms, AdmissionRow(body, t)) IN
       IF bedWriteFails
       THEN [admissions |-> inserted, beds |-> bds,
             ret |-> Undefined, threw |-> TRUE]
       ELSE [admissions |-> inserted,
             beds |-> SetBedStatus(bds, body.bedId, "occupied"),
             ret |-> Len(inserted), threw |-> FALSE]

\* the update with its where clause left out: every admission is discharged
MarkDischarged_noWhere(adms, id, t) ==
  [a \in DOMAIN adms |-> [adms[a] EXCEPT !.status = "discharged",
                                         !.dischargeDate = <<t>>]]

\* update(admissions).set({discharged, now}).where(eq(admissions.id, id))
MarkDischarged(adms, id, t) ==
  [a \in DOMAIN adms |->
     IF a = id THEN [adms[a] EXCEPT !.status = "discharged",
                                    !.dischargeDate = <<t>>]
     ELSE adms[a]]

\* dischargePatient without the second write: the bed is never freed
dischargePatient_keepsBed(adms, bds, id, t, bedWriteFails) ==
  IF id \notin DOMAIN adms
  THEN [admissions |-> adms, beds |-> bds, ret |-> Undefined, threw |-> FALSE]
  ELSE [admissions |-> MarkDischarged(adms, id, t), beds |-> bds,
        ret |-> id, threw |-> FALSE]

\* dischargePatient: mark the admission, and if a row came back free its bed
dischargePatient(adms, bds, id, t, bedWriteFails) ==
  IF id \notin DOMAIN adms
  THEN [admissions |-> MarkDischarged(adms, id, t), beds |-> bds,
        ret |-> Undefined, threw |-> FALSE]
  ELSE IF bedWriteFails
  THEN [admissions |-> MarkDischarged(adms, id, t), beds |-> bds,
        ret |-> Undefined, threw |-> TRUE]
  ELSE [admissions |-> MarkDischarged(adms, id, t),
        beds |-> SetBedStatus(bds, adms[id].bedId, "available"),
        ret |-> id, threw |-> FALSE]

(***************************************************************************)
(* Storage: bills                                                          *)
(***************************************************************************)
RECURSIVE Digits(_)
\* the decimal digits of n >= 0, most significant first
Digits(n) == IF n < 10 THEN <<n>> ELSE Append(Digits(n \div 10), n % 10)

DecimalDigits == <<"0", "1", "2", "3", "4", "5", "6", "7", "8", "9">>

\* String(n): the characters of the decimal numeral of n
StringOf(n) == LET d == Digits(n) IN [i \in DOMAIN d |-> DecimalDigits[d[i] + 1]]

RECURSIVE PadStart(_, _, _)
\* s.padStart(len, fill): fill on the left up to len, never truncating
PadStart(s, len, fill) ==
  IF Len(s) >= len THEN s ELSE PadStart(<<fill>> \o s, len, fill)

\* `INV-${String(count + 1).padStart(6, "0")}`
BillNumber(count) ==
  <<"I", "N", "V", "-">> \o PadStart(StringOf(count + 1), 6, "0")

\* bills.bill_number is unique, bills.patient_id references patients
BillConstraintsHold(bs, pats, values) ==
  /\ values.patientId \in DOMAIN pats
  /\ \A b \in DOMAIN bs : bs[b].billNumber # values.billNumber

\* db.insert(bills).values({ ...bill, billNumber }): the insert of createBill,
\* with the column defaults for everything the caller did not pass
insertBill(bs, pats, bill, billNumber, t) ==
  LET values == [billNumber |-> billNumber,
                 patientId |-> bill.patientId,
                 items |-> bill.items,
                 subtotal |-> bill.subtotal,
                 total |-> bill.total,
                 paidAmount |-> IF "paidAmount" \in DOMAIN bill
                                THEN bill.paidAmount ELSE PaidAmountDefault,
                 paymentStatus |-> IF "paymentStatus" \in DOMAIN bill
                                   THEN bill.paymentStatus
                                   ELSE PaymentStatusDefault,
                 paymentMethod |-> NULL,
                 updatedAt |-> <<t>>]
  IN IF BillConstraintsHold(bs, pats, values)
     THEN [bills |-> Append(bs, values), ret |-> Len(bs) + 1, threw |-> FALSE]
     ELSE [bills |-> bs, ret |-> Undefined, threw |-> TRUE]

\* createBill: number the bill from the row count, then insert it
createBill(bs, pats, bill, t) ==
  insertBill(bs, pats, bill, BillNumber(Len(bs)), t)

\* the payment replaces the paid amount instead of adding to it
NewPaidAmount_overwrite(paidAmount, amount) == amount

\* parseFloat(bill.paidAmount || "0") + amount
NewPaidAmount(paidAmount, amount) == paidAmount + amount

\* paid only on an exact match: === where >= is meant
NewStatus_exactMatch(newPaidAmount, total) ==
  IF newPaidAmount = total THEN "paid" ELSE "partial"

\* newPaidAmount >= total ? "paid" : "partial"
NewStatus(newPaidAmount, total) ==
  IF newPaidAmount >= total THEN "paid" ELSE "partial"

\* the payment update with its where clause left out: every bill is written
UpdateBillPayment_noWhere(bs, id, newPaidAmount, newStatus, method, t) ==
  [b \in DOMAIN bs |-> [bs[b] EXCEPT !.paidAmount = newPaidAmount,
                                     !.paymentStatus = newStatus,
                                     !.paymentMethod = <<method>>,
                                     !.updatedAt = <<t>>]]

\* update(bills).set({...}).where(eq(bills.id, id))
UpdateBillPayment(bs, id, newPaidAmount, newStatus, method, t) ==
  [b \in DOMAIN bs |->
     IF b = id THEN [bs[b] EXCEPT !.paidAmount = newPaidAmount,
                                  !.paymentStatus = newStatus,
                                  !.paymentMethod = <<method>>,
                                  !.updatedAt = <<t>>]
     ELSE bs[b]]

\* recordPayment without the `if (!bill) return undefined` guard: reading
\* bill.paidAmount of a missing bill throws
recordPayment_noGuard(bs, id, amount, method, t) ==
  IF id \notin DOMAIN bs
  THEN [bills |-> bs, ret |-> Undefined, threw |-> TRUE]
  ELSE LET newPaidAmount == NewPaidAmount(bs[id].paidAmount, amount)
           newStatus == NewStatus(newPaidAmount, bs[id].total)
       IN [bills |-> UpdateBillPayment(bs, id, newPaidAmount, newStatus,
                                       method, t),
           ret |-> id, threw |-> FALSE]

\* recordPayment: read the bill, add the amount, derive the status, write
recordPayment(bs, id, amount, method, t) ==
  IF id \notin DOMAIN bs
  THEN [bills |-> bs, ret |-> Undefined, threw |-> FALSE]
  ELSE LET newPaidAmount == NewPaidAmount(bs[id].paidAmount, amount)
           total == bs[id].total
           newStatus == NewStatus(newPaidAmount, total)
       IN [bills |-> UpdateBillPayment(bs, id, newPaidAmount, newStatus,
                                       method, t),
           ret |-> id, threw |-> FALSE]

(***************************************************************************)
(* Storage: lists by status; a status is NULL (no query parameter) or      *)
(* <<string>>, and the ids of the rows stand for the rows returned         *)
(***************************************************************************)
\* getAdmissions(status): status ? the rows with that status : all rows
getAdmissions(adms, status) ==
  IF status # NULL /\ status[1] # ""
  THEN {a \in DOMAIN adms : adms[a].status = status[1]}
  ELSE DOMAIN adms

\* getBills(status): status ? the rows with that payment status : all rows
getBills(bs, status) ==
  IF status # NULL /\ status[1] # ""
  THEN {b \in DOMAIN bs : bs[b].paymentStatus = status[1]}
  ELSE DOMAIN bs

(***************************************************************************)
(* Storage: appointments and lab tests                                     *)
(***************************************************************************)
\* createAppointment: insert the body; status falls back to the column
\* default; appointments.patient_id references patients
createAppointment(apps, pats, appointment) ==
  IF appointment.patientId \notin DOMAIN pats
  THEN [appointments |-> apps, ret |-> Undefined, threw |-> TRUE]
  ELSE [appointments |->
          Append(apps, [patientId |-> appointment.patientId,
                        status |-> IF appointment.status = ABSENT
                                   THEN AppointmentStatusDefault
                                   ELSE appointment.status]),
        ret |-> Len(apps) + 1, threw |-> FALSE]

\* updateAppointment(id, { status }): set the status of the row with this id
updateAppointment(apps, id, status) ==
  [appointments |-> [a \in DOMAIN apps |->
                       IF a = id THEN [apps[a] EXCEPT !.status = status]
                       ELSE apps[a]],
   ret |-> IF id \in DOMAIN apps THEN id ELSE Undefined]

\* getAppointments(status): status ? the rows with that status : all rows
getAppointments(apps, status) ==
  IF status # NULL /\ status[1] # ""
  THEN {a \in DOMAIN apps : apps[a].status = status[1]}
  ELSE DOMAIN apps

\* createLabTest: insert the body; status falls back to the column default;
\* lab_tests.patient_id references patients
createLabTest(labs, pats, labTest) ==
  IF labTest.patientId \notin DOMAIN pats
  THEN [labTests |-> labs, ret |-> Undefined, threw |-> TRUE]
  ELSE [labTests |->
          Append(labs, [patientId |-> labTest.patientId,
                        status |-> IF labTest.status = ABSENT
                                   THEN LabTestStatusDefault
                                   ELSE labTest.status,
                        collectedAt |-> NULL,
                        results |-> NULL,
                        completedAt |-> NULL]),
        ret |-> Len(labs) + 1, threw |-> FALSE]

\* updateLabTestStatus: set the status of the row with this id, and the
\* collection time when the status is sample_collected
updateLabTestStatus(labs, id, status, t) ==
  [labTests |-> [l \in DOMAIN labs |->
                   IF l # id THEN labs[l]
                   ELSE IF status = "sample_collected"
                   THEN [labs[l] EXCEPT !.status = status,
                                        !.collectedAt = <<t>>]
                   ELSE [labs[l] EXCEPT !.status = status]],
   ret |-> IF id \in DOMAIN labs THEN id ELSE Undefined]

\* updateLabTestResults: set results, status and completion time of the row
\* with this id; a status the body does not carry leaves the column as it is
updateLabTestResults(labs, id, results, status, t) ==
  [labTests |-> [l \in DOMAIN labs |->
                   IF l # id THEN labs[l]
                   ELSE [labs[l] EXCEPT !.results = <<results>>,
                                        !.status = IF status = ABSENT THEN @
                                                   ELSE status,
                                        !.completedAt = <<t>>]],
   ret |-> IF id \in DOMAIN labs THEN id ELSE Undefined]

\* getLabTests(status): status ? the rows with that status : all rows
getLabTests(labs, status) ==
  IF status # NULL /\ status[1] # ""
  THEN {l \in DOMAIN labs : labs[l].status = status[1]}
  ELSE DOMAIN labs

(***************************************************************************)
(* Storage: patients                                                       *)
(***************************************************************************)
\* the code without the padding: `PAT-${String(count + 1)}`
PatientCode_unpadded(count) == <<"P", "A", "T", "-">> \o StringOf(count + 1)

\* `PAT-${String(count + 1).padStart(5, "0")}`
PatientCode(count) ==
  <<"P", "A", "T", "-">> \o PadStart(StringOf(count + 1), 5, "0")

\* select count(*) from the table
CountRows(table) == Cardinality(DOMAIN table)

\* gen_random_uuid(): an id no row of the table has; ids are opaque, the
\* least free one stands for it
NewRowId(table) ==
  CHOOSE id \in 1..(CountRows(table) + 1) :
    /\ id \notin DOMAIN table
    /\ \A j \in 1..(id - 1) : j \in DOMAIN table

\* patients.patient_id is unique; p is the row being written, if it exists
PatientCodeFree(pats, p, patientId) ==
  \A q \in DOMAIN pats \ {p} : pats[q].patientId # patientId

\* the insert into a table whose patient_id column is not unique
insertPatient_notUnique(pats, patient, patientId) ==
  LET id == NewRowId(pats)
      values == [patientId |-> patientId,
                 firstName |-> patient.firstName,
                 lastName |-> patient.lastName,
                 phone |-> patient.phone]
  IN [patients |-> [p \in DOMAIN pats \cup {id} |->
                      IF p = id THEN values ELSE pats[p]],
      ret |-> id, threw |-> FALSE]

\* db.insert(patients).values({ ...patient, patientId }): the generated code
\* replaces whatever code the body carries
insertPatient(pats, patient, patientId) ==
  LET id == NewRowId(pats)
      values == [patientId |-> patientId,
                 firstName |-> patient.firstName,
                 lastName |-> patient.lastName,
                 phone |-> patient.phone]
  IN IF PatientCodeFree(pats, id, patientId)
     THEN [patients |-> [p \in DOMAIN pats \cup {id} |->
                           IF p = id THEN values ELSE pats[p]],
           ret |-> id, threw |-> FALSE]
     ELSE [patients |-> pats, ret |-> Undefined, threw |-> TRUE]

\* createPatient: code the patient from the row count, then insert
createPatient(pats, patient) ==
  insertPatient(pats, patient, PatientCode(CountRows(pats)))

UpperCase ==
  <<"A", "B", "C", "D", "E", "F", "G", "H", "I", "J", "K", "L", "M",
    "N", "O", "P", "Q", "R", "S", "T", "U", "V", "W", "X", "Y", "Z">>

LowerCase ==
  <<"a", "b", "c", "d", "e", "f", "g", "h", "i", "j", "k", "l", "m",
    "n", "o", "p", "q", "r", "s", "t", "u", "v", "w", "x", "y", "z">>

\* the lower-case letter of each upper-case letter
LowerOfUpper ==
  [ch \in {UpperCase[i] : i \in DOMAIN UpperCase} |->
     LowerCase[CHOOSE i \in DOMAIN UpperCase : UpperCase[i] = ch]]

\* one character folded to lower case, as ILIKE compares characters
Lower(ch) == IF ch \in DOMAIN LowerOfUpper THEN LowerOfUpper[ch] ELSE ch

RECURSIVE Like(_, _)
\* string LIKE pattern: % in the pattern matches any run of characters, _
\* any one character, any other character itself (the patterns matched
\* here carry no escape character)
Like(str, pattern) ==
  IF pattern = <<>> THEN str = <<>>
  ELSE IF Head(pattern) = "%"
  THEN Like(str, Tail(pattern)) \/ (str # <<>> /\ Like(Tail(str), pattern))
  ELSE IF Head(pattern) = "_"
  THEN str # <<>> /\ Like(Tail(str), Tail(pattern))
  ELSE /\ str # <<>>
       /\ Head(str) = Head(pattern)
       /\ Like(Tail(str), Tail(pattern))

\* ilike(column, pattern): LIKE without regard to case
ilike(column, pattern) ==
  Like([i \in DOMAIN column |-> Lower(column[i])],
       [i \in DOMAIN pattern |-> Lower(pattern[i])])

\* getPatients(search): with a non-empty search string the rows of which
\* first name, last name, code or phone is ILIKE %search%, otherwise all
\* rows; search is NULL (no query parameter) or <<string>>
getPatients(pats, search) ==
  IF search # NULL /\ search[1] # <<>>
  THEN LET pattern == <<"%">> \o search[1] \o <<"%">> IN
       {p \in DOMAIN pats :
          \/ ilike(pats[p].firstName, pattern)
          \/ ilike(pats[p].lastName, pattern)
          \/ ilike(pats[p].patientId, pattern)
          \/ ilike(pats[p].phone, pattern)}
  ELSE DOMAIN pats

\* getPatient: the row with this id, or undefined
getPatient(pats, id) == IF id \in DOMAIN pats THEN id ELSE Undefined

\* updatePatient: set the fields the body carries on the row with this id
updatePatient(pats, id, patient) ==
  IF id \notin DOMAIN pats
  THEN [patients |-> pats, ret |-> Undefined, threw |-> FALSE]
  ELSE LET values == [f \in DOMAIN pats[id] |->
                        IF f \in DOMAIN patient THEN patient[f]
                        ELSE pats[id][f]]
       IN IF PatientCodeFree(pats, id, values.patientId)
          THEN [patients |-> [pats EXCEPT ![id] = values],
                ret |-> id, threw |-> FALSE]
          ELSE [patients |-> pats, ret |-> Undefined, threw |-> TRUE]

\* appointments, lab tests, admissions and bills reference patients.id
PatientReferenced(id, apps, labs, adms, bs) ==
  \/ \E a \in DOMAIN apps : apps[a].patientId = id
  \/ \E l \in DOMAIN labs : labs[l].patientId = id
  \/ \E a \in DOMAIN adms : adms[a].patientId = id
  \/ \E b \in DOMAIN bs : bs[b].patientId = id

\* deletePatient: delete the row with this id, if any; the delete of a row
\* that is still referenced fails
deletePatient(pats, id, referenced) ==
  IF id \in DOMAIN pats /\ referenced
  THEN [patients |-> pats, threw |-> TRUE]
  ELSE [patients |-> [p \in DOMAIN pats \ {id} |-> pats[p]], threw |-> FALSE]

(***************************************************************************)
(* Storage: users; the id is the subject id of the identity provider, a    *)
(* column the login does not carry is undefined (NULL)                     *)
(***************************************************************************)
USER_ROLES == {"admin", "doctor", "lab_staff", "nurse", "patient", "receptionist"}

\* role: varchar("role").default("patient")
UserRoleDefault == "patient"

\* the subject ids that log in; the first is the seeded demo user
Subjects == {1, 2}

\* the demo user of the seed script
SeedUserRows ==
  [u \in {1} |-> [email |-> <<"admin@medicare.hospital">>,
                  firstName |-> <<"Admin">>,
                  lastName |-> <<"User">>,
                  profileImageUrl |-> NULL,
                  role |-> "admin",
                  updatedAt |-> <<0>>]]

\* email: varchar("email").unique(): no other row holds the email; NULLs
\* never collide
UserEmailFree(us, id, email) ==
  \/ email = NULL
  \/ \A u \in DOMAIN us \ {id} : us[u].email # email

\* a key of a set clause whose value is undefined is left out of the update
SetColumn(old, new) == IF new = NULL THEN old ELSE new

\* the set clause of upsertUser with the role column added to it
UpsertSet_resetsRole(row, userData, t) ==
  [row EXCEPT !.email = SetColumn(@, userData.email),
              !.firstName = SetColumn(@, userData.firstName),
              !.lastName = SetColumn(@, userData.lastName),
              !.profileImageUrl = SetColumn(@, userData.profileImageUrl),
              !.role = UserRoleDefault,
              !.updatedAt = <<t>>]

\* set: { email, firstName, lastName, profileImageUrl, updatedAt }
UpsertSet(row, userData, t) ==
  [row EXCEPT !.email = SetColumn(@, userData.email),
              !.firstName = SetColumn(@, userData.firstName),
              !.lastName = SetColumn(@, userData.lastName),
              !.profileImageUrl = SetColumn(@, userData.profileImageUrl),
              !.updatedAt = <<t>>]

\* upsertUser: insert(users).values(userData).onConflictDoUpdate({target: id})
upsertUser(us, userData, t) ==
  LET id == userData.id
      row == IF id \in DOMAIN us
             THEN UpsertSet(us[id], userData, t)
             ELSE [email |-> userData.email,
                   firstName |-> userData.firstName,
                   lastName |-> userData.lastName,
                   profileImageUrl |-> userData.profileImageUrl,
                   role |-> UserRoleDefault,
                   updatedAt |-> <<t>>]
  IN IF UserEmailFree(us, id, row.email)
     THEN [users |-> [u \in DOMAIN us \cup {id} |->
                        IF u = id THEN row ELSE us[u]],
           ret |-> id, threw |-> FALSE]
     ELSE [users |-> us, ret |-> Undefined, threw |-> TRUE]

\* updateUserRole: update(users).set({role, updatedAt}).where(eq(users.id, id))
updateUserRole(us, id, role, t) ==
  [users |-> [u \in DOMAIN us |->
                IF u = id THEN [us[u] EXCEPT !.role = role,
                                             !.updatedAt = <<t>>]
                ELSE us[u]],
   ret |-> IF id \in DOMAIN us THEN id ELSE Undefined]

(***************************************************************************)
(* The wards page (client/src/pages/wards.tsx): the React state of the     *)
(* component; the empty bedId of the form is NULL                          *)
(***************************************************************************)
\* useState(null), defaultValues: { bedId: "" }, useState(false)
ClosedPage ==
  [selectedBed |-> NULL, bedId |-> NULL, isAdmitDialogOpen |-> FALSE]

(***************************************************************************)
(* Initial state: the seeded database                                      *)
(***************************************************************************)
Init ==
  /\ patients = SeedPatientRows
  /\ beds \in SeedBedRows
  /\ admissions = <<>>
  /\ bills = <<>>
  /\ now = 0
  /\ payments = 0
  /\ req = [op |-> "seed"]
  /\ res = [status |-> 0, ret |-> Undefined]
  /\ appointments = <<>>
  /\ labTests = <<>>
  /\ calls = [c \in Callers |-> Idle]
  /\ issued = {}
  /\ env = Deployed
  /\ users = SeedUserRows
  /\ wardsPage = ClosedPage

(***************************************************************************)
(* Routes (server/routes.ts)                                               *)
(***************************************************************************)
\* POST /api/beds
PostBed ==
  \E status \in BED_STATUSES \cup {ABSENT} :
    /\ Len(beds) < MaxBeds
    /\ beds' = createBed(beds, [status |-> status])
    /\ req' = [op |-> "createBed", status |-> status]
    /\ res' = [status |-> 201, ret |-> Len(beds')]
    /\ UNCHANGED <<patients, admissions, bills, now, payments>>
    /\ UNCHANGED <<appointments, labTests, calls, issued, env, users, wardsPage>>

\* bodies POST /api/admissions can receive: req.body goes to the store as
\* is, with no status or with the status that is not the column default
AdmissionBodies ==
  [patientId : PatientRefs, bedId : BedRefs,
   status : {ABSENT} \cup (ADMISSION_STATUSES \ {AdmissionStatusDefault})]

\* POST /api/admissions
PostAdmission ==
  \E body \in AdmissionBodies, fault \in WriteFaults :
    LET r == createAdmission(admissions, beds, patients, body, now, fault) IN
    /\ Len(r.admissions) <= MaxAdmissions
    /\ fault => AdmissionFKsHold(patients, beds, body)
    /\ admissions' = r.admissions
    /\ beds' = r.beds
    /\ req' = [op |-> "createAdmission", body |-> body, fault |-> fault]
    /\ res' = [status |-> IF r.threw THEN 500 ELSE 201, ret |-> r.ret]
    /\ UNCHANGED <<patients, bills, now, payments>>
    /\ UNCHANGED <<appointments, labTests, calls, issued, env, users, wardsPage>>

\* PATCH /api/admissions/:id/discharge
PatchDischarge ==
  \E id \in AdmissionRefs, fault \in WriteFaults :
    LET r == dischargePatient(admissions, beds, id, now, fault) IN
    /\ fault => id \in DOMAIN admissions
    /\ admissions' = r.admissions
    /\ beds' = r.beds
    /\ req' = [op |-> "dischargePatient", id |-> id, fault |-> fault]
    /\ res' = [status |-> IF r.threw THEN 500 ELSE 200, ret |-> r.ret]
    /\ UNCHANGED <<patients, bills, now, payments>>
    /\ UNCHANGED <<appointments, labTests, calls, issued, env, users, wardsPage>>

\* line items a bill request can carry: amount is what the client says it
\* is, quantity * rate or not
BillItems == [quantity : {1}, rate : {2}, amount : {0, 2}]

\* the item lists a bill request can carry: none, or one line item
BillItemLists == {<<>>} \cup {<<item>> : item \in BillItems}

BillBodies == [patientId : PatientRefs, items : BillItemLists]

RECURSIVE SumAmounts(_)
\* items.reduce((sum, item) => sum + item.amount, 0)
SumAmounts(items) ==
  IF items = <<>> THEN 0
  ELSE SumAmounts(SubSeq(items, 1, Len(items) - 1)) + items[Len(items)].amount

\* { ...req.body, subtotal, total }: the whole body handed to createBill
InsertBillOf_wholeBody(body) ==
  LET subtotal == SumAmounts(body.items) IN
  [f \in DOMAIN body \cup {"subtotal", "total"} |->
     IF f \in {"subtotal", "total"} THEN subtotal ELSE body[f]]

\* const { patientId, items } = req.body, and the subtotal of the items:
\* what the route hands to createBill
InsertBillOf(body) ==
  LET subtotal == SumAmounts(body.items) IN
  [patientId |-> body.patientId, items |-> body.items,
   subtotal |-> subtotal, total |-> subtotal]

\* POST /api/bills with a body from bodies
PostBillFrom(bodies) ==
  \E body \in bodies :
    LET r == createBill(bills, patients, InsertBillOf(body), now)
    IN /\ Len(r.bills) <= MaxBills
       /\ bills' = r.bills
       /\ req' = [op |-> "createBill", body |-> body]
       /\ res' = [status |-> IF r.threw THEN 500 ELSE 201, ret |-> r.ret]
       /\ UNCHANGED <<patients, beds, admissions, now, payments>>
       /\ UNCHANGED <<appointments, labTests, calls, issued, env, users, wardsPage>>

\* POST /api/bills
PostBill == PostBillFrom(BillBodies)

\* bodies that also carry columns the route does not read
BillBodiesWithExtras ==
  [patientId : PatientRefs, items : BillItemLists,
   paidAmount : {3}, paymentStatus : {"paid"}, total : {0 - 5},
   billNumber : {<<"I", "N", "V", "-", "X">>}]

\* amounts and methods a payment request can carry: no validation of either
PaymentAmounts == {0 - 1, 0, 1, 3}

PaymentBodies ==
  [amount : PaymentAmounts, paymentMethod : PAYMENT_METHODS \cap {"cash", "card"}]

\* POST /api/bills/:id/payment
PostPayment ==
  \E id \in BillRefs, body \in PaymentBodies :
    LET r == recordPayment(bills, id, body.amount, body.paymentMethod, now) IN
    /\ payments < MaxPayments
    /\ payments' = payments + 1
    /\ bills' = r.bills
    /\ req' = [op |-> "recordPayment", id |-> id, body |-> body]
    /\ res' = [status |-> IF r.threw THEN 500 ELSE 200, ret |-> r.ret]
    /\ UNCHANGED <<patients, beds, admissions, now>>
    /\ UNCHANGED <<appointments, labTests, calls, issued, env, users, wardsPage>>

\* values of the status query parameter of GET /api/bills
BillStatusQueries == {NULL} \cup {<<str>> : str \in {"all"} \cup PAYMENT_STATUSES}

\* GET /api/bills?status=
GetBills ==
  \E status \in BillStatusQueries :
    /\ req' = [op |-> "getBills", status |-> status]
    /\ res' = [status |-> 200, ret |-> getBills(bills, status)]
    /\ UNCHANGED <<patients, beds, admissions, bills, now, payments>>
    /\ UNCHANGED <<appointments, labTests, calls, issued, env, users, wardsPage>>

NextBilling == PostBill \/ PostPayment

\* the bills routes read no bed: one outcome of the seed's draw will do
InitBilling == Init /\ \A b \in DOMAIN beds : beds[b].status = "available"

SpecBilling == InitBilling /\ [][NextBilling]_vars

NextBillBodies == PostBillFrom(BillBodies \cup BillBodiesWithExtras) \/ PostPayment

SpecBillBodies == InitBilling /\ [][NextBillBodies]_vars

\* values of the status query parameter of GET /api/admissions
AdmissionStatusQueries ==
  {NULL} \cup {<<str>> : str \in {"all"} \cup ADMISSION_STATUSES}

\* GET /api/admissions?status=
GetAdmissions ==
  \E status \in AdmissionStatusQueries :
    /\ req' = [op |-> "getAdmissions", status |-> status]
    /\ res' = [status |-> 200, ret |-> getAdmissions(admissions, status)]
    /\ UNCHANGED <<patients, beds, admissions, bills, now, payments>>
    /\ UNCHANGED <<appointments, labTests, calls, issued, env, users, wardsPage>>

NextWard == PostBed \/ PostAdmission \/ PatchDischarge

SpecWard == Init /\ [][NextWard]_vars

\* new Date() advances between requests
Tick ==
  /\ now < MaxClock
  /\ now' = now + 1
  /\ req' = [op |-> "tick"]
  /\ UNCHANGED <<patients, beds, admissions, bills, payments, res>>
  /\ UNCHANGED <<appointments, labTests, calls, issued, env, users, wardsPage>>

NextWardClock == PostAdmission \/ PatchDischarge \/ Tick

SpecWardClock == Init /\ [][NextWardClock]_vars

\* admissions and bills as they are created and discharged, and their lists
NextLists ==
  PostAdmission \/ PatchDischarge \/ PostBill \/ GetAdmissions \/ GetBills

SpecLists == Init /\ [][NextLists]_vars

(***************************************************************************)
(* Concurrent payments: recordPayment is a select, an await and an update, *)
(* so the requests of two clients interleave between the two statements    *)
(***************************************************************************)
\* const [bill] = await db.select().from(bills).where(eq(bills.id, id))
SelectBill(bs, id) == IF id \in DOMAIN bs THEN <<bs[id]>> ELSE <<>>

\* the update made atomic: the amount is added to the paid amount the row
\* holds at the time of the write (set paid_amount = paid_amount + amount)
recordPaymentUpdate_inPlace(bs, bill, id, amount, method, t) ==
  LET newPaidAmount == NewPaidAmount(bs[id].paidAmount, amount)
      newStatus == NewStatus(newPaidAmount, bs[id].total)
  IN UpdateBillPayment(bs, id, newPaidAmount, newStatus, method, t)

\* the second half of recordPayment: the new amount and status are computed
\* from the row the select returned, then written over the stored row
recordPaymentUpdate(bs, bill, id, amount, method, t) ==
  LET newPaidAmount == NewPaidAmount(bill.paidAmount, amount)
      total == bill.total
      newStatus == NewStatus(newPaidAmount, total)
  IN UpdateBillPayment(bs, id, newPaidAmount, newStatus, method, t)

\* the bill the two clients pay: what POST /api/bills stores for one item
\* of amount 3 for the first seeded patient
OpenBills ==
  createBill(<<>>, SeedPatientRows,
             [patientId |-> 1,
              items |-> <<[quantity |-> 1, rate |-> 3, amount |-> 3]>>,
              subtotal |-> 3, total |-> 3], 0).bills

\* the bills a racing payment names: the open bill and one that does not exist
RacePaymentRefs == {1, 2}

\* the amounts the racing clients pay
RacePaymentAmounts == {1, 2, 3}

\* POST /api/bills/:id/payment up to the await of the select
PaymentSelect(c) ==
  \E id \in RacePaymentRefs, amount \in RacePaymentAmounts :
    /\ calls[c].pc = "idle"
    /\ calls' = [calls EXCEPT ![c] = [pc |-> "selected", id |-> id,
                                      amount |-> amount,
                                      bill |-> SelectBill(bills, id)]]
    /\ UNCHANGED <<patients, beds, admissions, bills, now, payments, req, res>>
    /\ UNCHANGED <<appointments, labTests, issued, env, users, wardsPage>>

\* POST /api/bills/:id/payment from the select's result to the response
PaymentUpdate(c) ==
  /\ calls[c].pc = "selected"
  /\ bills' = IF calls[c].bill = <<>> THEN bills
              ELSE recordPaymentUpdate(bills, calls[c].bill[1], calls[c].id,
                                       calls[c].amount, "cash", now)
  /\ calls' = [calls EXCEPT ![c].pc = "returned"]
  /\ UNCHANGED <<patients, beds, admissions, now, payments, req, res>>
  /\ UNCHANGED <<appointments, labTests, issued, env, users, wardsPage>>

NextPayRace == \E c \in Callers : PaymentSelect(c) \/ PaymentUpdate(c)

InitPayRace ==
  /\ patients = SeedPatientRows
  /\ beds \in SeedBedRows
  /\ \A b \in DOMAIN beds : beds[b].status = "available"
  /\ admissions = <<>>
  /\ bills = OpenBills
  /\ now = 0
  /\ payments = 0
  /\ req = [op |-> "seed"]
  /\ res = [status |-> 0, ret |-> Undefined]
  /\ appointments = <<>>
  /\ labTests = <<>>
  /\ calls = [c \in Callers |-> Idle]
  /\ issued = {}
  /\ env = Deployed
  /\ users = SeedUserRows
  /\ wardsPage = ClosedPage

SpecPayRace == InitPayRace /\ [][NextPayRace]_vars

(***************************************************************************)
(* Concurrent creations: createPatient and createBill are a count, an      *)
(* await and an insert, so creations interleave between the two statements *)
(***************************************************************************)
\* a client with neither creation in progress
IdleCreations == [createPatient |-> Idle, createBill |-> Idle]

\* what the racing clients post: a patient, and a bill of one item for the
\* first seeded patient
RacePatient ==
  [firstName |-> <<"J", "a", "n", "e">>, lastName |-> <<"D", "o", "e">>,
   phone |-> <<"5", "5", "5", "-", "0", "1", "9", "9">>]

RaceBill ==
  [patientId |-> 1,
   items |-> <<[quantity |-> 1, rate |-> 3, amount |-> 3]>>,
   subtotal |-> 3, total |-> 3]

\* the insert made to code the row from the rows present at the insert
createPatientInsert_recounts(pats, patient, count) ==
  insertPatient(pats, patient, PatientCode(CountRows(pats)))

\* the second half of createPatient: the code comes from the count read
\* before the await
createPatientInsert(pats, patient, count) ==
  insertPatient(pats, patient, PatientCode(count))

\* the second half of createBill: the number comes from the count read
\* before the await
createBillInsert(bs, pats, bill, count, t) ==
  insertBill(bs, pats, bill, BillNumber(count), t)

\* POST /api/patients up to the await of the count
PatientCount(c) ==
  /\ calls[c].createPatient.pc = "idle"
  /\ calls' = [calls EXCEPT ![c].createPatient =
                 [pc |-> "counted", count |-> CountRows(patients)]]
  /\ UNCHANGED <<patients, beds, admissions, bills, now, payments, req, res>>
  /\ UNCHANGED <<appointments, labTests, issued, env, users, wardsPage>>

\* POST /api/patients from the count to the response
PatientInsert(c) ==
  LET call == calls[c].createPatient
      r == createPatientInsert(patients, RacePatient, call.count)
  IN /\ call.pc = "counted"
     /\ patients' = r.patients
     /\ calls' = [calls EXCEPT ![c].createPatient =
                    [pc |-> "returned", count |-> call.count,
                     threw |-> r.threw]]
     /\ UNCHANGED <<beds, admissions, bills, now, payments, req, res>>
     /\ UNCHANGED <<appointments, labTests, issued, env, users, wardsPage>>

\* POST /api/bills up to the await of the count
BillCount(c) ==
  /\ calls[c].createBill.pc = "idle"
  /\ calls' = [calls EXCEPT ![c].createBill =
                 [pc |-> "counted", count |-> Len(bills)]]
  /\ UNCHANGED <<patients, beds, admissions, bills, now, payments, req, res>>
  /\ UNCHANGED <<appointments, labTests, issued, env, users, wardsPage>>

\* POST /api/bills from the count to the response
BillInsert(c) ==
  LET call == calls[c].createBill
      r == createBillInsert(bills, patients, RaceBill, call.count, now)
  IN /\ call.pc = "counted"
     /\ bills' = r.bills
     /\ calls' = [calls EXCEPT ![c].createBill =
                    [pc |-> "returned", count |-> call.count,
                     threw |-> r.threw]]
     /\ UNCHANGED <<patients, beds, admissions, now, payments, req, res>>
     /\ UNCHANGED <<appointments, labTests, issued, env, users, wardsPage>>

NextIdRace ==
  \E c \in Callers :
    PatientCount(c) \/ PatientInsert(c) \/ BillCount(c) \/ BillInsert(c)

InitIdRace ==
  /\ patients = SeedPatientRows
  /\ beds \in SeedBedRows
  /\ \A b \in DOMAIN beds : beds[b].status = "available"
  /\ admissions = <<>>
  /\ bills = <<>>
  /\ now = 0
  /\ payments = 0
  /\ req = [op |-> "seed"]
  /\ res = [status |-> 0, ret |-> Undefined]
  /\ appointments = <<>>
  /\ labTests = <<>>
  /\ calls = [c \in Callers |-> IdleCreations]
  /\ issued = {}
  /\ env = Deployed
  /\ users = SeedUserRows
  /\ wardsPage = ClosedPage

SpecIdRace == InitIdRace /\ [][NextIdRace]_vars

(***************************************************************************)
(* Admissions from the wards page: each client holds the bed list it       *)
(* fetched last, and its admission form offers the beds available in it    *)
(***************************************************************************)
\* beds?.filter((b) => b.status === "available"): the options of the selector
BedOptions(bedList) ==
  {b \in DOMAIN bedList : bedList[b].status = "available"}

\* GET /api/beds by the wards page of client c: getBeds() returns every bed,
\* with its status
FetchBeds(c) ==
  /\ calls[c].pc = "idle"
  /\ calls' = [calls EXCEPT ![c] = [pc |-> "listed", beds |-> beds]]
  /\ UNCHANGED <<patients, beds, admissions, bills, now, payments, req, res>>
  /\ UNCHANGED <<appointments, labTests, issued, env, users, wardsPage>>

\* POST /api/admissions by the form of client c, for a bed its list offers;
\* on success the page drops the list it holds
SubmitAdmission(c) ==
  \E bedId \in BedRefs :
    LET body == [patientId |-> 1, bedId |-> bedId, status |-> ABSENT]
        r == createAdmission(admissions, beds, patients, body, now, FALSE)
    IN /\ calls[c].pc = "listed"
       /\ bedId \in BedOptions(calls[c].beds)
       /\ Len(r.admissions) <= MaxAdmissions
       /\ admissions' = r.admissions
       /\ beds' = r.beds
       /\ calls' = [calls EXCEPT ![c] = Idle]
       /\ req' = [op |-> "createAdmission", body |-> body, fault |-> FALSE]
       /\ res' = [status |-> IF r.threw THEN 500 ELSE 201, ret |-> r.ret]
       /\ UNCHANGED <<patients, bills, now, payments>>
       /\ UNCHANGED <<appointments, labTests, issued, env, users, wardsPage>>

NextAdmitRace ==
  \/ \E c \in Callers : FetchBeds(c) \/ SubmitAdmission(c)
  \/ PostBed
  \/ PatchDischarge

SpecAdmitRace == InitBilling /\ [][NextAdmitRace]_vars

(***************************************************************************)
(* Patient registry (routes.ts behind replitAuth.ts isAuthenticated)       *)
(***************************************************************************)
\* the session cookie of a request: of a signed-in user, or none
Sessions == {"valid", "none"}

\* isAuthenticated: whether the middleware calls next(); without a
\* deployment id every request passes as the demo user, with one only a
\* request for which req.isAuthenticated() holds
isAuthenticated(e, session) ==
  IF e.REPLIT_DEPLOYMENT_ID = NULL THEN TRUE
  ELSE session = "valid"

\* res.status(401).json({ error: "Unauthorized" })
Unauthorized == [status |-> 401, ret |-> Undefined]

\* bodies POST /api/patients can receive: with or without a code of their own
PatientBodies ==
  {RacePatient,
   [firstName |-> <<"J", "o", "h", "n">>, lastName |-> <<"S", "m", "i", "t", "h">>,
    phone |-> <<"5", "5", "5", "-", "0", "1", "0", "1">>,
    patientId |-> <<"P", "A", "T", "-", "0", "0", "0", "0", "1">>]}

\* bodies PATCH /api/patients/:id can receive: any subset of the columns
PatientPatches ==
  {[lastName |-> <<"D", "o", "e">>],
   [patientId |-> <<"P", "A", "T", "-", "0", "0", "0", "0", "1">>]}

\* values of the search query parameter: none, empty, part of a first
\* name, of a last name, of a code, of a phone number, and the two
\* characters LIKE gives a meaning to
SearchStrings ==
  {<<>>, <<"j", "a", "n">>, <<"S", "M", "I", "T", "H">>,
   <<"a", "t", "-", "0", "0", "0", "0", "1">>, <<"0", "1", "0", "1">>, <<"_">>, <<"%">>}

Searches == {NULL} \cup {<<str>> : str \in SearchStrings}

\* POST /api/patients
PostPatient ==
  \E body \in PatientBodies, session \in Sessions :
    LET r == createPatient(patients, body) IN
    /\ CountRows(patients) < SeedPatients + MaxPatients
    /\ req' = [op |-> "createPatient", body |-> body, session |-> session]
    /\ IF isAuthenticated(env, session)
       THEN /\ patients' = r.patients
            /\ issued' = IF r.threw THEN issued
                         ELSE issued \cup {r.patients[r.ret].patientId}
            /\ res' = [status |-> IF r.threw THEN 500 ELSE 201, ret |-> r.ret]
       ELSE /\ UNCHANGED <<patients, issued>>
            /\ res' = Unauthorized
    /\ UNCHANGED <<beds, admissions, bills, now, payments>>
    /\ UNCHANGED <<appointments, labTests, calls, env, users, wardsPage>>

\* GET /api/patients/:id
GetPatient ==
  \E id \in PatientRefs, session \in Sessions :
    LET patient == getPatient(patients, id) IN
    /\ req' = [op |-> "getPatient", id |-> id, session |-> session]
    /\ res' = IF ~isAuthenticated(env, session) THEN Unauthorized
              ELSE IF patient = Undefined
              THEN [status |-> 404, ret |-> Undefined]
              ELSE [status |-> 200, ret |-> patient]
    /\ UNCHANGED <<patients, beds, admissions, bills, now, payments>>
    /\ UNCHANGED <<appointments, labTests, calls, issued, env, users, wardsPage>>

\* PATCH /api/patients/:id
PatchPatient ==
  \E id \in PatientRefs, body \in PatientPatches, session \in Sessions :
    LET r == updatePatient(patients, id, body) IN
    /\ req' = [op |-> "updatePatient", id |-> id, body |-> body,
               session |-> session]
    /\ IF isAuthenticated(env, session)
       THEN /\ patients' = r.patients
            /\ res' = [status |-> IF r.threw THEN 500 ELSE 200, ret |-> r.ret]
       ELSE /\ UNCHANGED patients
            /\ res' = Unauthorized
    /\ UNCHANGED <<beds, admissions, bills, now, payments>>
    /\ UNCHANGED <<appointments, labTests, calls, issued, env, users, wardsPage>>

\* DELETE /api/patients/:id
DeletePatient ==
  \E id \in PatientRefs, session \in Sessions :
    LET r == deletePatient(patients, id,
                           PatientReferenced(id, appointments, labTests,
                                             admissions, bills))
    IN
    /\ req' = [op |-> "deletePatient", id |-> id, session |-> session]
    /\ IF isAuthenticated(env, session)
       THEN /\ patients' = r.patients
            /\ res' = [status |-> IF r.threw THEN 500 ELSE 204,
                       ret |-> Undefined]
       ELSE /\ UNCHANGED patients
            /\ res' = Unauthorized
    /\ UNCHANGED <<beds, admissions, bills, now, payments>>
    /\ UNCHANGED <<appointments, labTests, calls, issued, env, users, wardsPage>>

\* GET /api/patients?search=
GetPatients ==
  \E search \in Searches, session \in Sessions :
    /\ req' = [op |-> "getPatients", search |-> search, session |-> session]
    /\ res' = IF ~isAuthenticated(env, session) THEN Unauthorized
              ELSE [status |-> 200, ret |-> getPatients(patients, search)]
    /\ UNCHANGED <<patients, beds, admissions, bills, now, payments>>
    /\ UNCHANGED <<appointments, labTests, calls, issued, env, users, wardsPage>>

NextRegistry ==
  PostPatient \/ GetPatient \/ PatchPatient \/ DeletePatient \/ GetPatients

\* the seeded database, served by a deployment or by a development run
InitRegistry ==
  /\ patients = SeedPatientRows
  /\ beds \in SeedBedRows
  /\ \A b \in DOMAIN beds : beds[b].status = "available"
  /\ admissions = <<>>
  /\ bills = <<>>
  /\ now = 0
  /\ payments = 0
  /\ req = [op |-> "seed"]
  /\ res = [status |-> 0, ret |-> Undefined]
  /\ appointments = <<>>
  /\ labTests = <<>>
  /\ calls = [c \in Callers |-> Idle]
  /\ issued = {}
  /\ env \in Environments
  /\ users = SeedUserRows
  /\ wardsPage = ClosedPage

SpecRegistry == InitRegistry /\ [][NextRegistry]_vars

(***************************************************************************)
(* Appointments and lab tests (routes.ts)                                  *)
(***************************************************************************)
\* the status handed to the storage method with "all" passed on as it came
StatusFilter_passesAll(status) == status

\* status !== "all" ? status : undefined
StatusFilter(status) == IF status # <<"all">> THEN status ELSE NULL

\* bodies POST /api/appointments can receive
AppointmentBodies ==
  [patientId : PatientRefs, status : {ABSENT, "cancelled"}]

\* statuses PATCH /api/appointments/:id/status can receive
AppointmentStatusBodies == APPOINTMENT_STATUSES \cap {"completed", "cancelled"}

AppointmentRefs == 1..(MaxAppointments + 1)

\* values of the status query parameter of GET /api/appointments: none,
\* empty, "all", and statuses
AppointmentStatusQueries ==
  {NULL} \cup {<<str>> : str \in {"", "all"} \cup
                 (APPOINTMENT_STATUSES \ {"in_progress", "no_show"})}

\* POST /api/appointments
PostAppointment ==
  \E body \in AppointmentBodies :
    LET r == createAppointment(appointments, patients, body) IN
    /\ Len(r.appointments) <= MaxAppointments
    /\ appointments' = r.appointments
    /\ req' = [op |-> "createAppointment", body |-> body]
    /\ res' = [status |-> IF r.threw THEN 500 ELSE 201, ret |-> r.ret]
    /\ UNCHANGED <<patients, beds, admissions, bills, now, payments>>
    /\ UNCHANGED <<labTests, calls, issued, env, users, wardsPage>>

\* PATCH /api/appointments/:id/status
PatchAppointmentStatus ==
  \E id \in AppointmentRefs, status \in AppointmentStatusBodies :
    LET r == updateAppointment(appointments, id, status) IN
    /\ appointments' = r.appointments
    /\ req' = [op |-> "updateAppointmentStatus", id |-> id, status |-> status]
    /\ res' = [status |-> 200, ret |-> r.ret]
    /\ UNCHANGED <<patients, beds, admissions, bills, now, payments>>
    /\ UNCHANGED <<labTests, calls, issued, env, users, wardsPage>>

\* GET /api/appointments?status=
GetAppointments ==
  \E status \in AppointmentStatusQueries :
    /\ req' = [op |-> "getAppointments", status |-> status]
    /\ res' = [status |-> 200,
               ret |-> getAppointments(appointments, StatusFilter(status))]
    /\ UNCHANGED <<patients, beds, admissions, bills, now, payments>>
    /\ UNCHANGED <<appointments, labTests, calls, issued, env, users, wardsPage>>

\* bodies POST /api/lab-tests can receive
LabTestBodies == [patientId : PatientRefs, status : {ABSENT, "cancelled"}]

\* statuses PATCH /api/lab-tests/:id/status can receive
LabTestStatusBodies == LAB_TEST_STATUSES \cap {"sample_collected", "completed"}

LabTestRefs == 1..(MaxLabTests + 1)

\* values of the status query parameter of GET /api/lab-tests
LabTestStatusQueries ==
  {NULL} \cup {<<str>> : str \in {"", "all"} \cup
                 (LAB_TEST_STATUSES \ {"in_progress", "sample_collected"})}

\* POST /api/lab-tests
PostLabTest ==
  \E body \in LabTestBodies :
    LET r == createLabTest(labTests, patients, body) IN
    /\ Len(r.labTests) <= MaxLabTests
    /\ labTests' = r.labTests
    /\ req' = [op |-> "createLabTest", body |-> body]
    /\ res' = [status |-> IF r.threw THEN 500 ELSE 201, ret |-> r.ret]
    /\ UNCHANGED <<patients, beds, admissions, bills, now, payments>>
    /\ UNCHANGED <<appointments, calls, issued, env, users, wardsPage>>

\* PATCH /api/lab-tests/:id/status
PatchLabTestStatus ==
  \E id \in LabTestRefs, status \in LabTestStatusBodies :
    LET r == updateLabTestStatus(labTests, id, status, now) IN
    /\ labTests' = r.labTests
    /\ req' = [op |-> "updateLabTestStatus", id |-> id, status |-> status]
    /\ res' = [status |-> 200, ret |-> r.ret]
    /\ UNCHANGED <<patients, beds, admissions, bills, now, payments>>
    /\ UNCHANGED <<appointments, calls, issued, env, users, wardsPage>>

\* GET /api/lab-tests?status=
GetLabTests ==
  \E status \in LabTestStatusQueries :
    /\ req' = [op |-> "getLabTests", status |-> status]
    /\ res' = [status |-> 200,
               ret |-> getLabTests(labTests, StatusFilter(status))]
    /\ UNCHANGED <<patients, beds, admissions, bills, now, payments>>
    /\ UNCHANGED <<appointments, labTests, calls, issued, env, users, wardsPage>>

\* bodies PATCH /api/lab-tests/:id/results can receive: a results blob, and
\* the status the lab page sends, another one, or none
ResultBodies ==
  [results : {[value |-> "7", unit |-> "mg/dL"]},
   status : {ABSENT} \cup (LAB_TEST_STATUSES \cap {"completed", "pending"})]

\* PATCH /api/lab-tests/:id/results
PatchLabTestResults ==
  \E id \in LabTestRefs, body \in ResultBodies :
    LET r == updateLabTestResults(labTests, id, body.results, body.status,
                                  now)
    IN
    /\ labTests' = r.labTests
    /\ req' = [op |-> "updateLabTestResults", id |-> id, body |-> body]
    /\ res' = [status |-> 200, ret |-> r.ret]
    /\ UNCHANGED <<patients, beds, admissions, bills, now, payments>>
    /\ UNCHANGED <<appointments, calls, issued, env, users, wardsPage>>

NextLab == PostLabTest \/ PatchLabTestStatus \/ PatchLabTestResults

SpecLab == InitBilling /\ [][NextLab]_vars

NextClinic ==
  \/ PostAppointment \/ PatchAppointmentStatus \/ GetAppointments
  \/ PostLabTest \/ PatchLabTestStatus \/ GetLabTests

SpecClinic == InitBilling /\ [][NextClinic]_vars

(***************************************************************************)
(* Users: the login callback of replitAuth.ts and the role route           *)
(***************************************************************************)
\* the claims of an identity token: sub, email, given_name, family_name,
\* picture
UserInfos ==
  [id : Subjects,
   email : {NULL, <<"admin@medicare.hospital">>, <<"ann@example.org">>},
   firstName : {<<"Admin">>, <<"Ann">>}, lastName : {<<"User">>, <<"Lee">>},
   profileImageUrl : {NULL, <<"ann.png">>}]

\* the roles the users page assigns
RoleBodies == USER_ROLES \cap {"doctor", "patient"}

\* verify: a login upserts the user of the token's claims
Login ==
  \E userInfo \in UserInfos :
    LET r == upsertUser(users, userInfo, now) IN
    /\ env.REPLIT_DEPLOYMENT_ID # NULL
    /\ users' = r.users
    /\ req' = [op |-> "upsertUser", userData |-> userInfo]
    /\ res' = [status |-> IF r.threw THEN 500 ELSE 200, ret |-> r.ret]
    /\ UNCHANGED <<patients, beds, admissions, bills, now, payments>>
    /\ UNCHANGED <<appointments, labTests, calls, issued, env, wardsPage>>

\* PATCH /api/users/:id/role, for the id of a user or of none
PatchUserRole ==
  \E id \in Subjects \cup {3}, role \in RoleBodies :
    LET r == updateUserRole(users, id, role, now) IN
    /\ users' = r.users
    /\ req' = [op |-> "updateUserRole", id |-> id, role |-> role]
    /\ res' = [status |-> 200, ret |-> r.ret]
    /\ UNCHANGED <<patients, beds, admissions, bills, now, payments>>
    /\ UNCHANGED <<appointments, labTests, calls, issued, env, wardsPage>>

NextUsers == Login \/ PatchUserRole

SpecUsers == InitBilling /\ [][NextUsers]_vars

(***************************************************************************)
(* The wards page: the handlers of its buttons.  A handler reads the       *)
(* state of the render it was created in; a state setter takes effect at   *)
(* the next render, a form.setValue at once.  The page shows the beds of   *)
(* the server.                                                             *)
(***************************************************************************)
\* handleAdmit, in a render whose selectedBed is the page's: preset the form
\* with that bed if there is one, and open the dialog
handleAdmit(page) ==
  [page EXCEPT !.bedId = IF page.selectedBed # NULL THEN page.selectedBed
                         ELSE @,
               !.isAdmitDialogOpen = TRUE]

\* onAdmit={() => { setSelectedBed(bed); handleAdmit(); }}: handleAdmit runs
\* on the state of the current render, then the new selectedBed is rendered
onAdmit(page, bed) ==
  [handleAdmit(page) EXCEPT !.selectedBed = <<bed>>]

\* the Admit button on the card of an available bed
ClickBedAdmit ==
  \E bed \in DOMAIN beds :
    /\ ~wardsPage.isAdmitDialogOpen
    /\ beds[bed].status = "available"
    /\ wardsPage' = onAdmit(wardsPage, bed)
    /\ req' = [op |-> "onAdmit", bed |-> bed]
    /\ UNCHANGED <<patients, beds, admissions, bills, now, payments, res>>
    /\ UNCHANGED <<appointments, labTests, calls, issued, env, users>>

\* the Admit Patient button of the page header
ClickAdmitPatient ==
  /\ ~wardsPage.isAdmitDialogOpen
  /\ wardsPage' = handleAdmit(wardsPage)
  /\ req' = [op |-> "handleAdmit"]
  /\ UNCHANGED <<patients, beds, admissions, bills, now, payments, res>>
  /\ UNCHANGED <<appointments, labTests, calls, issued, env, users>>

\* the bed selector of the dialog: field.onChange with an offered bed
SelectBed ==
  \E bed \in BedOptions(beds) :
    /\ wardsPage.isAdmitDialogOpen
    /\ wardsPage' = [wardsPage EXCEPT !.bedId = <<bed>>]
    /\ req' = [op |-> "selectBed", bed |-> bed]
    /\ UNCHANGED <<patients, beds, admissions, bills, now, payments, res>>
    /\ UNCHANGED <<appointments, labTests, calls, issued, env, users>>

\* Cancel: setIsAdmitDialogOpen(false); the form keeps its values
CancelAdmit ==
  /\ wardsPage.isAdmitDialogOpen
  /\ wardsPage' = [wardsPage EXCEPT !.isAdmitDialogOpen = FALSE]
  /\ req' = [op |-> "cancelAdmit"]
  /\ UNCHANGED <<patients, beds, admissions, bills, now, payments, res>>
  /\ UNCHANGED <<appointments, labTests, calls, issued, env, users>>

\* Admit Patient in the dialog: the form validates (bedId not empty), POSTs
\* the admission, and on success closes the dialog and resets the form
SubmitAdmitForm ==
  /\ wardsPage.isAdmitDialogOpen
  /\ wardsPage.bedId # NULL
  /\ LET body == [patientId |-> 1, bedId |-> wardsPage.bedId[1],
                  status |-> ABSENT]
         r == createAdmission(admissions, beds, patients, body, now, FALSE)
     IN /\ Len(r.admissions) <= MaxAdmissions
        /\ admissions' = r.admissions
        /\ beds' = r.beds
        /\ wardsPage' = IF r.threw THEN wardsPage
                        ELSE [wardsPage EXCEPT !.isAdmitDialogOpen = FALSE,
                                               !.bedId = NULL]
        /\ req' = [op |-> "createAdmission", body |-> body, fault |-> FALSE]
        /\ res' = [status |-> IF r.threw THEN 500 ELSE 201, ret |-> r.ret]
        /\ UNCHANGED <<patients, bills, now, payments>>
        /\ UNCHANGED <<appointments, labTests, calls, issued, env, users>>

NextWardsPage ==
  \/ ClickBedAdmit
  \/ ClickAdmitPatient
  \/ SelectBed
  \/ CancelAdmit
  \/ SubmitAdmitForm
  \/ PostBed

SpecWardsPage == InitBilling /\ [][NextWardsPage]_vars

(***************************************************************************)
(* Identifier generation as a function of the row count                    *)
(***************************************************************************)
\* the row counts a creation can read: the first MaxRows, and those around
\* the last five-digit patient code and the last six-digit bill number
RowCounts == (0..MaxRows) \cup {99998, 99999, 999998, 999999}

\* the identifiers createPatient and createBill compute over count rows
GenerateCodes ==
  \E count \in RowCounts :
    /\ req' = [op |-> "generateCodes", count |-> count]
    /\ res' = [status |-> 0, ret |-> Undefined,
               patientId |-> PatientCode(count),
               billNumber |-> BillNumber(count)]
    /\ UNCHANGED <<patients, beds, admissions, bills, now, payments>>
    /\ UNCHANGED <<appointments, labTests, calls, issued, env, users, wardsPage>>

NextCodes == GenerateCodes

SpecCodes == InitBilling /\ [][NextCodes]_vars

(***************************************************************************)
(* Admission/bed coordinator                                               *)
(***************************************************************************)
\* the admitted admissions of table adms that reference bed b
AdmittedOn(adms, b) ==
  {a \in DOMAIN adms : adms[a].bedId = b /\ adms[a].status = "admitted"}

\* C1: in every reachable state, a bed is occupied if and only if some
\* admitted admission references it.
BedOccupiedIffAdmitted ==
  \A b \in DOMAIN beds :
    beds[b].status = "occupied" <=> AdmittedOn(admissions, b) # {}

\* C2: whatever body POST /api/admissions accepted, the stored row is
\* admitted with an admission date, and the referenced bed is occupied.
AcceptedAdmissionIsAdmitted ==
  (req.op = "createAdmission" /\ res.status = 201) =>
    /\ admissions[res.ret].status = "admitted"
    /\ admissions[res.ret].admissionDate # NULL
    /\ beds[admissions[res.ret].bedId].status = "occupied"

\* the admit step just taken put a patient into bed b, which was available
\* and free of admitted admissions, with a body that does not set a status
\* of its own
AdmitsIntoFreeBed(b) ==
  /\ req'.op = "createAdmission"
  /\ res'.status = 201
  /\ req'.body.bedId = b
  /\ req'.body.status = ABSENT
  /\ beds[b].status = "available"
  /\ AdmittedOn(admissions, b) = {}

\* the discharge step just taken found admission a
Discharges(a) ==
  /\ req'.op = "dischargePatient"
  /\ req'.id = a
  /\ res'.status = 200
  /\ a \in DOMAIN admissions

\* C3: admitting into an available bed that no admitted admission references
\* leaves the bed occupied with exactly one admitted admission on it; the
\* discharge of an admission leaves its bed available and the admission
\* discharged with a discharge date.
AdmitThenDischarge ==
  [][/\ \A b \in DOMAIN beds :
          AdmitsIntoFreeBed(b) =>
            /\ beds'[b].status = "occupied"
            /\ Cardinality(AdmittedOn(admissions', b)) = 1
            /\ AdmittedOn(admissions', b) = {res'.ret}
     /\ \A a \in DOMAIN admissions :
          Discharges(a) =>
            /\ beds'[admissions[a].bedId].status = "available"
            /\ admissions'[a].status = "discharged"
            /\ admissions'[a].dischargeDate # NULL]_vars

\* a patient was admitted into a free bed and has just been discharged
AdmittedThenDischarged ==
  /\ req.op = "dischargePatient"
  /\ res.status = 200
  /\ res.ret # Undefined
  /\ Len(admissions) = 1
  /\ admissions[res.ret].status = "discharged"
  /\ admissions[res.ret].dischargeDate # NULL
  /\ beds[admissions[res.ret].bedId].status = "available"

\* C8: discharging an id that matches no admission answers with an empty
\* result, not an error, and changes no admission and no bed.
DischargeOfUnknownIsEmpty ==
  [][(req'.op = "dischargePatient" /\ req'.id \notin DOMAIN admissions) =>
       /\ res'.status = 200
       /\ res'.ret = Undefined
       /\ admissions' = admissions
       /\ beds' = beds]_vars

\* an unknown admission was discharged while an admitted one exists
UnknownDischargedBesideAdmitted ==
  /\ req.op = "dischargePatient"
  /\ req.id \notin DOMAIN admissions
  /\ res.ret = Undefined
  /\ \E a \in DOMAIN admissions :
       /\ admissions[a].status = "admitted"
       /\ beds[admissions[a].bedId].status = "occupied"

\* C9: an admit request naming a missing bed or patient is answered with a
\* not-found error, distinct from the generic internal failure.
AdmitOfMissingRefIsNotFound ==
  (req.op = "createAdmission"
     /\ ~AdmissionFKsHold(patients, beds, req.body)) => res.status = 404

\* C10: when the bed write fails after the insert, the request reports an
\* error, the inserted row stays and no bed is touched: a bed that was not
\* occupied is now referenced by an admitted admission and still not occupied.
BedWriteFailureSurfaces ==
  [][(req'.op = "createAdmission" /\ req'.fault) =>
       /\ res'.status = 500
       /\ Len(admissions') = Len(admissions) + 1
       /\ SubSeq(admissions', 1, Len(admissions)) = admissions
       /\ admissions'[Len(admissions')].bedId = req'.body.bedId
       /\ beds' = beds
       /\ (req'.body.status # "discharged"
             /\ beds[req'.body.bedId].status # "occupied") =>
            /\ admissions'[Len(admissions')].status = "admitted"
            /\ beds'[req'.body.bedId].status # "occupied"]_vars

\* the bed write failed: an admitted admission sits on an available bed
AdmittedOnAvailableBed ==
  /\ req.op = "createAdmission"
  /\ req.fault
  /\ res.status = 500
  /\ admissions[Len(admissions)].status = "admitted"
  /\ beds[admissions[Len(admissions)].bedId].status = "available"

(***************************************************************************)
(* Billing ledger                                                          *)
(***************************************************************************)
\* the status the paid amount and the total call for
StatusFor(paidAmount, total) ==
  IF paidAmount >= total THEN "paid"
  ELSE IF paidAmount > 0 THEN "partial" ELSE "pending"

\* C4: in every reachable state every bill is paid iff paidAmount >= total,
\* else partial if paidAmount > 0, else pending.
PaymentStatusMatchesAmounts ==
  \A b \in DOMAIN bills :
    bills[b].paymentStatus = StatusFor(bills[b].paidAmount, bills[b].total)

\* the payment step just taken addressed the existing bill b
Pays(b) ==
  /\ req'.op = "recordPayment"
  /\ req'.id = b
  /\ b \in DOMAIN bills

OverpaymentStoredInFull ==
  [][\A b \in DOMAIN bills :
       (Pays(b) /\ bills[b].paidAmount + req'.body.amount > bills[b].total) =>
         /\ res'.status = 200
         /\ res'.ret = b
         /\ bills'[b].paidAmount = bills[b].paidAmount + req'.body.amount
         /\ bills'[b].paymentStatus = "paid"]_vars

\* a bill with a positive total was overpaid by a positive payment
Overpaid ==
  /\ req.op = "recordPayment"
  /\ req.id \in DOMAIN bills
  /\ req.body.amount > 0
  /\ bills[req.id].total > 0
  /\ bills[req.id].paidAmount > bills[req.id].total
  /\ bills[req.id].paymentStatus = "paid"

\* C7: a payment on an id that matches no bill ends in the empty result
\* that stands for not found, which no payment on an existing bill yields,
\* and leaves every bill as it was.
PaymentOnUnknownBillIsNotFound ==
  [][/\ (req'.op = "recordPayment" /\ req'.id \notin DOMAIN bills) =>
          /\ res'.status = 200
          /\ res'.ret = Undefined
          /\ bills' = bills
     /\ \A b \in DOMAIN bills : Pays(b) => res'.ret # Undefined]_vars

\* a payment named an unknown bill while a bill exists
UnknownBillPaid ==
  /\ req.op = "recordPayment"
  /\ req.id \notin DOMAIN bills
  /\ res.ret = Undefined
  /\ bills # <<>>

(***************************************************************************)
(* Concurrent requests                                                     *)
(***************************************************************************)
\* client c has a payment on bill b in progress or returned, whose select
\* found the bill
PaysBill(c, b) ==
  /\ calls[c].pc \in {"selected", "returned"}
  /\ calls[c].id = b
  /\ calls[c].bill # <<>>

\* C11: the update of a payment stores the paid amount its own select read
\* plus its own amount, whatever another request has written to the bill in
\* between; so two requests that both select before either updates leave a
\* paid amount that reflects only one of the two amounts.
PaymentWritesOverStaleRead ==
  [][\A c \in Callers :
       (calls[c].pc = "selected" /\ calls'[c].pc = "returned"
        /\ PaysBill(c, calls[c].id)) =>
         bills'[calls[c].id].paidAmount =
           calls[c].bill[1].paidAmount + calls[c].amount]_vars

\* both clients paid the open bill, both selects read paid amount 0, both
\* updates are done, and the paid amount is one client's amount alone
LostPayment ==
  \E c, d \in Callers :
    /\ c # d
    /\ calls[c].pc = "returned" /\ PaysBill(c, 1)
    /\ calls[d].pc = "returned" /\ PaysBill(d, 1)
    /\ calls[c].bill[1].paidAmount = 0
    /\ calls[d].bill[1].paidAmount = 0
    /\ bills[1].paidAmount = calls[d].amount
    /\ bills[1].paidAmount < calls[c].amount + calls[d].amount

\* the patient codes, or the bill numbers, a table holds
PatientCodes(pats) == {pats[p].patientId : p \in DOMAIN pats}

BillNumbers(bs) == {bs[b].billNumber : b \in DOMAIN bs}

\* C12: the insert of a creation uses the identifier of the count read before
\* it, whatever was inserted in between: if that identifier is already in
\* the table the creation fails and inserts nothing, otherwise it is stored;
\* so two creations that count the same rows compute the same identifier
\* and collide.
CreationUsesCountReadEarlier ==
  [][\A c \in Callers :
       /\ (calls[c].createPatient.pc = "counted"
           /\ calls'[c].createPatient.pc = "returned") =>
            LET code == PatientCode(calls[c].createPatient.count) IN
            IF code \in PatientCodes(patients)
            THEN calls'[c].createPatient.threw /\ patients' = patients
            ELSE /\ ~calls'[c].createPatient.threw
                 /\ PatientCodes(patients') = PatientCodes(patients) \cup {code}
       /\ (calls[c].createBill.pc = "counted"
           /\ calls'[c].createBill.pc = "returned") =>
            LET number == BillNumber(calls[c].createBill.count) IN
            IF number \in BillNumbers(bills)
            THEN calls'[c].createBill.threw /\ bills' = bills
            ELSE /\ ~calls'[c].createBill.threw
                 /\ BillNumbers(bills') = BillNumbers(bills) \cup {number}]_vars

\* both clients' patient creations counted the same rows, and so did their
\* bill creations; of each pair one has inserted and the other has failed
SameCountCollided ==
  \E c, d \in Callers :
    /\ c # d
    /\ \A k \in {"createPatient", "createBill"} :
         /\ calls[c][k].pc = "returned"
         /\ calls[d][k].pc = "returned"
         /\ calls[c][k].count = calls[d][k].count
         /\ calls[c][k].threw # calls[d][k].threw

(***************************************************************************)
(* Identifier generation                                                   *)
(***************************************************************************)
\* the characters of an identifier after its four-character prefix
CodeDigits(code) == SubSeq(code, 5, Len(code))

IsDigit(ch) == \E d \in 0..9 : DecimalDigits[d + 1] = ch

RECURSIVE NumberOf(_)
\* the number a sequence of digit characters denotes
NumberOf(chars) ==
  IF chars = <<>> THEN 0
  ELSE 10 * NumberOf(SubSeq(chars, 1, Len(chars) - 1))
       + (CHOOSE d \in 0..9 : DecimalDigits[d + 1] = chars[Len(chars)])

\* code is prefix followed by digits that denote number
IsCodeOf(code, prefix, number) ==
  /\ Len(code) > 4
  /\ SubSeq(code, 1, 4) = prefix
  /\ \A i \in 5..Len(code) : IsDigit(code[i])
  /\ NumberOf(CodeDigits(code)) = number

CodeNumber(code) == NumberOf(CodeDigits(code))

\* C14: in a run of one request after another, the code of every patient
\* created is strictly greater than every patient code handed out before,
\* and the number of every bill created is strictly greater than every bill
\* number handed out before (bills are never deleted: those in the table).
CodesIncrease ==
  [][/\ (req'.op = "createPatient" /\ res'.status = 201) =>
          \A code \in issued :
            CodeNumber(code) < CodeNumber(patients'[res'.ret].patientId)
     /\ (req'.op = "createBill" /\ res'.status = 201) =>
          \A b \in DOMAIN bills :
            CodeNumber(bills[b].billNumber)
              < CodeNumber(bills'[res'.ret].billNumber)]_vars

(***************************************************************************)
(* Access control and missing rows                                         *)
(***************************************************************************)
\* C15: whatever the environment, a request to a protected route that
\* carries no valid session is answered 401 and changes no table.
NoSessionNoAccess ==
  [][("session" \in DOMAIN req' /\ req'.session = "none") =>
       /\ res'.status = 401
       /\ UNCHANGED <<patients, beds, admissions, bills, appointments,
                      labTests>>]_vars

\* the ids of the rows the route of a request with an :id looks up
RowsOf(op) ==
  CASE op \in {"getPatient", "updatePatient", "deletePatient"} ->
         DOMAIN patients
    [] op \in {"updateAppointmentStatus", "deleteAppointment"} ->
         DOMAIN appointments
    [] op \in {"updateLabTestStatus"} -> DOMAIN labTests
    [] op \in {"dischargePatient"} -> DOMAIN admissions
    [] op \in {"recordPayment"} -> DOMAIN bills
    [] OTHER -> {}

\* C16: a request that passes the access check and names, in its :id, a row
\* that does not exist is answered 404, whether it reads, updates, changes
\* a status, discharges, pays or deletes.
MissingRowIsNotFound ==
  [][("id" \in DOMAIN req' /\ res'.status # 401
      /\ req'.id \notin RowsOf(req'.op)) =>
       res'.status = 404]_vars

(***************************************************************************)
(* Lists and search                                                        *)
(***************************************************************************)
\* the ids of the rows of a table whose field is one of the values
RowsWith(table, field, values) ==
  {r \in DOMAIN table : table[r][field] \in values}

\* C17: the list of admissions, and of bills, requested with status "all" or
\* with no status is every row; requested with another status it is exactly
\* the rows of that status.
AllListsEveryRow ==
  [][/\ req'.op = "getAdmissions" =>
          res'.ret = IF req'.status \in {NULL, <<"all">>}
                     THEN DOMAIN admissions
                     ELSE RowsWith(admissions, "status", {req'.status[1]})
     /\ req'.op = "getBills" =>
          res'.ret = IF req'.status \in {NULL, <<"all">>}
                     THEN DOMAIN bills
                     ELSE RowsWith(bills, "paymentStatus",
                                   {req'.status[1]})]_vars

\* C18: GET /api/appointments with no status, an empty one or "all" returns
\* every appointment, and with any other status exactly the appointments of
\* that status; GET /api/lab-tests does the same for lab tests.
StatusFiltersTheList ==
  [][/\ req'.op = "getAppointments" =>
          res'.ret = IF req'.status \in {NULL, <<"">>, <<"all">>}
                     THEN DOMAIN appointments
                     ELSE RowsWith(appointments, "status", {req'.status[1]})
     /\ req'.op = "getLabTests" =>
          res'.ret = IF req'.status \in {NULL, <<"">>, <<"all">>}
                     THEN DOMAIN labTests
                     ELSE RowsWith(labTests, "status",
                                   {req'.status[1]})]_vars

\* the cancelled appointments were asked for and returned, a scheduled one
\* was left out; a completed and a pending lab test are stored
CancelledListed ==
  /\ req.op = "getAppointments"
  /\ req.status = <<"cancelled">>
  /\ res.ret # {}
  /\ \A a \in res.ret : appointments[a].status = "cancelled"
  /\ \E a \in DOMAIN appointments : appointments[a].status = "scheduled"
  /\ \E l \in DOMAIN labTests : labTests[l].status = "completed"
  /\ \E l \in DOMAIN labTests : labTests[l].status = "pending"

\* str, its characters taken as they are, occurs in column without regard
\* to case
OccursIn(str, column) ==
  \E i \in 0..(Len(column) - Len(str)) :
    \A j \in 1..Len(str) : Lower(column[i + j]) = Lower(str[j])

\* C19: GET /api/patients with a non-empty search string returns exactly
\* the patients whose first name, last name, code or phone contains the
\* string, its characters taken literally and without regard to case; with
\* no search string or an empty one it returns every patient.
SearchIsLiteralSubstring ==
  [][(req'.op = "getPatients" /\ res'.status = 200) =>
       res'.ret =
         IF req'.search \in {NULL, <<<<>>>>} THEN DOMAIN patients
         ELSE {p \in DOMAIN patients :
                 \E f \in {"firstName", "lastName", "patientId", "phone"} :
                   OccursIn(req'.search[1], patients[p][f])}]_vars

\* the same for the search strings without % and _
SearchOfPlainStringIsSubstring ==
  [][(req'.op = "getPatients" /\ res'.status = 200
      /\ req'.search # NULL
      /\ \A i \in DOMAIN req'.search[1] :
           req'.search[1][i] \notin {"%", "_"}) =>
       res'.ret =
         IF req'.search = <<<<>>>> THEN DOMAIN patients
         ELSE {p \in DOMAIN patients :
                 \E f \in {"firstName", "lastName", "patientId", "phone"} :
                   OccursIn(req'.search[1], patients[p][f])}]_vars

(***************************************************************************)
(* Bill totals                                                             *)
(***************************************************************************)
RECURSIVE SumQuantityTimesRate(_)
\* the sum over the items of quantity times rate
SumQuantityTimesRate(items) ==
  IF items = <<>> THEN 0
  ELSE SumQuantityTimesRate(Tail(items))
       + Head(items).quantity * Head(items).rate

\* C20: the bill POST /api/bills stores has as subtotal the sum over its
\* items of quantity times rate, whatever amount the items carry, and as
\* total its subtotal.
SubtotalIsQuantityTimesRate ==
  [][(req'.op = "createBill" /\ res'.status = 201) =>
       /\ bills'[res'.ret].subtotal = SumQuantityTimesRate(req'.body.items)
       /\ bills'[res'.ret].total = bills'[res'.ret].subtotal]_vars

(***************************************************************************)
(* Lab results                                                             *)
(***************************************************************************)
\* C21: in every reachable state a lab test that has results is completed.
ResultsOnlyWhenCompleted ==
  \A l \in DOMAIN labTests :
    labTests[l].results # NULL => labTests[l].status = "completed"

(***************************************************************************)
(* Admissions from stale bed lists                                         *)
(***************************************************************************)
\* C22: in every reachable state at most one admitted admission references
\* any bed, when every admission comes from a form that offers the beds
\* available in the bed list its client fetched last.
OneAdmittedPerBed ==
  \A b \in DOMAIN beds : Cardinality(AdmittedOn(admissions, b)) <= 1

(***************************************************************************)
(* Repeated discharge                                                      *)
(***************************************************************************)
\* the request just served discharged an admission that was discharged before
DischargesAgain ==
  /\ req'.op = "dischargePatient"
  /\ req'.id \in DOMAIN admissions
  /\ admissions[req'.id].status = "discharged"

\* C23: dischargePatient applied to an admission that is already discharged
\* changes no bed's status and keeps that admission's dischargeDate.
DischargeIsIdempotent ==
  [][DischargesAgain =>
       /\ beds' = beds
       /\ admissions'[req'.id].dischargeDate = admissions[req'.id].dischargeDate]_vars

(***************************************************************************)
(* Paid bills                                                              *)
(***************************************************************************)
\* the request just served recorded a payment on a bill that was paid
PaysPaidBill ==
  /\ req'.op = "recordPayment"
  /\ req'.id \in DOMAIN bills
  /\ bills[req'.id].paymentStatus = "paid"

\* C24: a recordPayment on a bill whose paymentStatus is paid leaves it paid,
\* for every amount the payment endpoint accepts.
PaidStaysPaid ==
  [][PaysPaidBill => bills'[req'.id].paymentStatus = "paid"]_vars

(***************************************************************************)
(* Unique identifiers                                                      *)
(***************************************************************************)
\* no two stored patients share a code and no two stored bills a number
IdentifiersAreUnique ==
  /\ \A p, q \in DOMAIN patients :
       patients[p].patientId = patients[q].patientId => p = q
  /\ \A b, d \in DOMAIN bills :
       bills[b].billNumber = bills[d].billNumber => b = d

\* the creation of client c that just returned had computed a stored identifier
CollidingInsert(c) ==
  \/ /\ calls[c].createPatient.pc = "counted"
     /\ calls'[c].createPatient.pc = "returned"
     /\ \E p \in DOMAIN patients :
          patients[p].patientId = PatientCode(calls[c].createPatient.count)
     /\ ~(calls'[c].createPatient.threw /\ patients' = patients)
  \/ /\ calls[c].createBill.pc = "counted"
     /\ calls'[c].createBill.pc = "returned"
     /\ \E b \in DOMAIN bills :
          bills[b].billNumber = BillNumber(calls[c].createBill.count)
     /\ ~(calls'[c].createBill.threw /\ bills' = bills)

\* C25: in every reachable state, under any interleaving of creations, no two
\* stored patients share a patient code and no two stored bills share a bill
\* number; a creation that computes an identifier already in use fails with
\* an error and inserts no row.
UniqueIdentifiersRefuseDuplicates ==
  /\ []IdentifiersAreUnique
  /\ [][\A c \in Callers : ~CollidingInsert(c)]_vars

\* a patient creation and a bill creation have each failed on an identifier
\* that another creation had stored meanwhile, and the tables hold one new
\* patient and one bill
DuplicatesRefused ==
  /\ \E c \in Callers : /\ calls[c].createPatient.pc = "returned"
                        /\ calls[c].createPatient.threw
  /\ \E c \in Callers : /\ calls[c].createBill.pc = "returned"
                        /\ calls[c].createBill.threw
  /\ CountRows(patients) = SeedPatients + 1
  /\ Len(bills) = 1

(***************************************************************************)
(* What an admission and a discharge leave alone                           *)
(***************************************************************************)
\* the admissions other than a, and the beds other than b, are as they were
OnlyAdmissionAndBed(a, b) ==
  /\ \A x \in DOMAIN admissions \ {a} :
       x \in DOMAIN admissions' /\ admissions'[x] = admissions[x]
  /\ DOMAIN beds' = DOMAIN beds
  /\ \A y \in DOMAIN beds \ {b} : beds'[y] = beds[y]

\* C26: createAdmission changes only the admission it creates and the bed
\* that admission references, dischargePatient only the admission it
\* addresses and the bed that admission references: every other bed and
\* every other admission is left unchanged.
AdmissionFrame ==
  [][/\ req'.op = "createAdmission" =>
          /\ OnlyAdmissionAndBed(Len(admissions) + 1, req'.body.bedId)
          /\ Len(admissions') <= Len(admissions) + 1
     /\ req'.op = "dischargePatient" =>
          /\ DOMAIN admissions' = DOMAIN admissions
          /\ IF req'.id \in DOMAIN admissions
             THEN OnlyAdmissionAndBed(req'.id, admissions[req'.id].bedId)
             ELSE admissions' = admissions /\ beds' = beds]_vars

\* an admission has just been discharged and its bed freed while another
\* bed is still occupied by another, admitted admission
DischargedBesideAnother ==
  /\ req.op = "dischargePatient"
  /\ req.id \in DOMAIN admissions
  /\ res.ret = req.id
  /\ beds[admissions[req.id].bedId].status = "available"
  /\ \E a \in DOMAIN admissions \ {req.id} :
       /\ admissions[a].status = "admitted"
       /\ admissions[a].bedId # admissions[req.id].bedId
       /\ beds[admissions[a].bedId].status = "occupied"

(***************************************************************************)
(* What a payment leaves alone                                             *)
(***************************************************************************)
\* the columns of a bill that recordPayment does not set
KeptByPayment(bill) ==
  [total |-> bill.total, subtotal |-> bill.subtotal, items |-> bill.items,
   billNumber |-> bill.billNumber, patientId |-> bill.patientId]

\* C27: recordPayment changes only paidAmount, paymentStatus, paymentMethod
\* and updatedAt of the addressed bill: its total, subtotal, items,
\* billNumber and patientId, and every other bill, are left unchanged.
PaymentFrame ==
  [][req'.op = "recordPayment" =>
       /\ DOMAIN bills' = DOMAIN bills
       /\ \A b \in DOMAIN bills :
            IF b = req'.id
            THEN KeptByPayment(bills'[b]) = KeptByPayment(bills[b])
            ELSE bills'[b] = bills[b]
       /\ patients' = patients]_vars

\* a payment has just been recorded on one bill while another bill is
\* still pending with nothing paid
PaidBesidePending ==
  /\ req.op = "recordPayment"
  /\ req.id \in DOMAIN bills
  /\ res.ret = req.id
  /\ bills[req.id].paidAmount > 0
  /\ bills[req.id].paymentMethod = <<req.body.paymentMethod>>
  /\ \E b \in DOMAIN bills \ {req.id} :
       /\ bills[b].paymentStatus = "pending"
       /\ bills[b].paidAmount = 0
       /\ bills[b].paymentMethod = NULL

(***************************************************************************)
(* What a new bill takes from the request                                  *)
(***************************************************************************)
\* C28: every bill created through POST /api/bills starts with paidAmount 0
\* and paymentStatus pending, with the total of its items and the number of
\* the row count, whatever paidAmount, paymentStatus, total or billNumber the
\* request body carries: only patientId and items are taken from the client.
NewBillTakesOnlyPatientAndItems ==
  [][(req'.op = "createBill" /\ res'.status = 201) =>
       LET bill == bills'[res'.ret] IN
       /\ bill.paidAmount = 0
       /\ bill.paymentStatus = "pending"
       /\ bill.patientId = req'.body.patientId
       /\ bill.items = req'.body.items
       /\ bill.total = SumAmounts(req'.body.items)
       /\ bill.subtotal = SumAmounts(req'.body.items)
       /\ bill.billNumber = BillNumber(Len(bills))]_vars

\* a bill has just been created from a body that claims to be paid
PaidBodyStoredPending ==
  /\ req.op = "createBill"
  /\ res.status = 201
  /\ "paymentStatus" \in DOMAIN req.body
  /\ req.body.paymentStatus = "paid"
  /\ req.body.paidAmount > 0
  /\ bills[res.ret].paymentStatus = "pending"
  /\ bills[res.ret].total = 2

(***************************************************************************)
(* Logins and roles                                                        *)
(***************************************************************************)
\* the login just served was of a subject id that has a row
LogsInAgain ==
  /\ req'.op = "upsertUser"
  /\ req'.userData.id \in DOMAIN users

\* the columns of row that the login carries are those of the login
ProfileOf(row, userData) ==
  \A f \in {"email", "firstName", "lastName", "profileImageUrl"} :
    userData[f] # NULL => row[f] = userData[f]

\* C29, as stated: upsertUser for a subject id that has a row keeps one row
\* for that id, updates its email, first name, last name and profile image
\* and leaves its role unchanged.
UpsertUpdatesProfileKeepsRole ==
  [][LogsInAgain =>
       LET id == req'.userData.id IN
       /\ DOMAIN users' = DOMAIN users
       /\ ProfileOf(users'[id], req'.userData)
       /\ users'[id].role = users[id].role]_vars

\* C29: upsertUser for a subject id that has a row keeps one row for that id
\* and every other row, and leaves its role unchanged, so a role assigned
\* through updateUserRole survives any later login; it updates the email,
\* first name, last name and profile image the login carries, unless the
\* email is stored for another user: then it fails and changes nothing.
UpsertKeepsRole ==
  [][LogsInAgain =>
       LET id == req'.userData.id IN
       /\ DOMAIN users' = DOMAIN users
       /\ \A u \in DOMAIN users \ {id} : users'[u] = users[u]
       /\ users'[id].role = users[id].role
       /\ IF UserEmailFree(users, id, req'.userData.email)
          THEN res'.status = 200 /\ ProfileOf(users'[id], req'.userData)
          ELSE res'.status = 500 /\ users' = users]_vars

\* the second subject, made a doctor through updateUserRole, has just logged
\* in with another name and is still a doctor
DoctorLoggedInAgain ==
  /\ req.op = "upsertUser"
  /\ req.userData.id = 2
  /\ res.status = 200
  /\ 2 \in DOMAIN users
  /\ users[2].role = "doctor"
  /\ users[2].firstName = <<"Ann">>
  /\ users[2].email = <<"ann@example.org">>

(***************************************************************************)
(* The admission dialog                                                    *)
(***************************************************************************)
\* C30: a click on Admit on the card of bed B opens the admission dialog
\* with its bedId field preset to B, whatever bed cards were clicked before.
AdmitDialogPresetsClickedBed ==
  [][req'.op = "onAdmit" =>
       /\ wardsPage'.isAdmitDialogOpen
       /\ wardsPage'.bedId = <<req'.bed>>]_vars

====
